---- MODULE Spec2Model ----
(* fs-jetpack lib/fileOps.js: read / write / append on one file, in the     *)
(* blocking and in the promise style, with the "safe" write protocol       *)
(* (stage into path.__new__, back up into path.__bak__, rename, clean up)   *)
(* and the "safe" read that falls back to the backup.                      *)
(*                                                                         *)
(* The file system is the three names the module touches for one path     *)
(* (path, path + newExt, path + bakExt) plus the existence of their parent *)
(* directory.  A program counter names the line of fileOps.js whose file   *)
(* system call is pending.  fs.writeFile / fs.appendFile are not atomic:   *)
(* they open (create / truncate) and then write, and a crash or a fault    *)
(* may fall between the two.  rename and unlink are atomic.                *)
EXTENDS Integers, Sequences, FiniteSets, TLC

VARIABLES dir, files, call, faults

vars == <<dir, files, call, faults>>

----------------------------------------------------------------------------
(* Bounds *)

\* longest string a caller passes as data, and longest initial content of path
MaxLen == 1
\* number of file system calls that fail for a reason the file system state
\* does not explain (permissions, disk full, I/O fault)
MaxFaults == 1

----------------------------------------------------------------------------
(* Data *)

Chars == {"1", "x"}

Strings(n) == UNION {[1..k -> Chars] : k \in 0..n}

\* character <-> byte (the utf8 codec of fs.readFile / fs.writeFile)
CharCode(ch) == IF ch = "1" THEN 49 ELSE 120
CodeChar(b) == IF b = 49 THEN "1" ELSE "x"
Utf8Encode(s) == [i \in 1..Len(s) |-> CharCode(s[i])]
Utf8Decode(b) == [i \in 1..Len(b) |-> CodeChar(b[i])]

\* the two names derived from path, and path itself
newExt == "new"
bakExt == "bak"
Names == {"path", newExt, bakExt}

NoFile == [ex |-> FALSE, b |-> <<>>]
File(bytes) == [ex |-> TRUE, b |-> bytes]

\* values a read returns
Null == [t |-> "null", s |-> <<>>, b |-> <<>>, n |-> 0]
StrVal(s) == [t |-> "str", s |-> s, b |-> <<>>, n |-> 0]
BufVal(b) == [t |-> "buf", s |-> <<>>, b |-> b, n |-> 0]
NumVal(n) == [t |-> "num", s |-> <<>>, b |-> <<>>, n |-> n]

ReturnTypes == {"utf8", "buf", "json", "jsonWithDates"}
\* what a caller may pass as returnAs: the four types, or something else
ReturnAsArgs == ReturnTypes \cup {"undefined"}

isValidReturnType(type) == type \in ReturnTypes

\* JSON.parse on the texts of this alphabet: a run of digits is a number,
\* anything else (the empty text included) is a syntax error; JSON.parse(null)
\* is null.
RECURSIVE DecimalValue(_)
DecimalValue(s) ==
    IF Len(s) = 0 THEN 0
    ELSE 10 * DecimalValue(SubSeq(s, 1, Len(s) - 1)) + 1

IsJSONText(s) == Len(s) > 0 /\ \A i \in 1..Len(s) : s[i] = "1"

\* the reviver: a string value that looks like a date becomes a date, any other
\* value is returned as it is (the texts here decode to numbers or null)
jsonDateParser(value) == value

JSONParse(v, withDates) ==
    IF v.t = "null" THEN [ok |-> TRUE, val |-> Null]
    ELSE IF IsJSONText(v.s)
         THEN [ok |-> TRUE,
               val |-> IF withDates THEN jsonDateParser(NumVal(DecimalValue(v.s)))
                       ELSE NumVal(DecimalValue(v.s))]
         ELSE [ok |-> FALSE, val |-> Null]

\* read / readAsync: the returnAs actually used, and the encoding handed to fs
EffectiveReturnAs(returnAs) == IF isValidReturnType(returnAs) THEN returnAs ELSE "utf8"
ReadEncoding(returnAs) == IF EffectiveReturnAs(returnAs) = "buf" THEN "null" ELSE "utf8"

\* what fs.readFile hands back for the bytes of a file under an encoding
ReadValue(bytes, encoding) ==
    IF encoding = "utf8" THEN StrVal(Utf8Decode(bytes)) ELSE BufVal(bytes)

\* the final parsing of read (lines 102-106) and of dataReady (lines 239-243)
ParseData(returnAs, data) ==
    IF EffectiveReturnAs(returnAs) = "json" THEN JSONParse(data, FALSE)
    ELSE IF EffectiveReturnAs(returnAs) = "jsonWithDates" THEN JSONParse(data, TRUE)
    ELSE [ok |-> TRUE, val |-> data]

----------------------------------------------------------------------------
(* The file system calls.  Each is the set of its possible results         *)
(* [err, fl, dir, out, inj]: err is "OK" or an error code, fl and dir the   *)
(* file system afterwards, out what a read returns, inj = 1 when the       *)
(* result is a fault the state does not explain.                           *)

\* the error code of such a fault; ENOENT is never a fault: it comes from the
\* state alone (a missing file, a missing parent directory)
FaultCodes == {"EIO"}

Result(err, fl, d, out, inj) == [err |-> err, fl |-> fl, dir |-> d, out |-> out, inj |-> inj]

Faults(codes) ==
    IF faults < MaxFaults
    THEN {Result(e, files, dir, <<>>, 1) : e \in codes}
    ELSE {}

\* open(name, O_WRONLY | O_CREAT | O_TRUNC): first half of fs.writeFile
FsOpenTrunc(name) ==
    Faults(FaultCodes) \cup
    (IF dir THEN {Result("OK", [files EXCEPT ![name] = File(<<>>)], dir, <<>>, 0)}
     ELSE {Result("ENOENT", files, dir, <<>>, 0)})

\* open(name, O_APPEND | O_CREAT): first half of fs.appendFile
FsOpenAppend(name) ==
    Faults(FaultCodes) \cup
    (IF dir
     THEN {Result("OK", [files EXCEPT ![name] = File(files[name].b)], dir, <<>>, 0)}
     ELSE {Result("ENOENT", files, dir, <<>>, 0)})

\* bytes written from offset 0 over the content old
Overlay(old, bytes) == bytes \o SubSeq(old, Len(bytes) + 1, Len(old))

\* write(fd, bytes, 0): second half of fs.writeFile; a fault leaves a proper
\* prefix of the bytes written
FsWrite(name, bytes) ==
    (IF faults < MaxFaults
     THEN {Result("EIO",
                  [files EXCEPT ![name] = File(Overlay(files[name].b, SubSeq(bytes, 1, k)))],
                  dir, <<>>, 1) : k \in 0..(Len(bytes) - 1)}
     ELSE {}) \cup
    {Result("OK", [files EXCEPT ![name] = File(Overlay(files[name].b, bytes))], dir, <<>>, 0)}

\* write(fd, bytes) on a descriptor opened O_APPEND: second half of fs.appendFile
FsAppend(name, bytes) ==
    (IF faults < MaxFaults
     THEN {Result("EIO",
                  [files EXCEPT ![name] = File(files[name].b \o SubSeq(bytes, 1, k))],
                  dir, <<>>, 1) : k \in 0..(Len(bytes) - 1)}
     ELSE {}) \cup
    {Result("OK", [files EXCEPT ![name] = File(files[name].b \o bytes)], dir, <<>>, 0)}

FsReadFile(name) ==
    Faults(FaultCodes) \cup
    (IF files[name].ex THEN {Result("OK", files, dir, files[name].b, 0)}
     ELSE {Result("ENOENT", files, dir, <<>>, 0)})

\* rename(2): atomic, replaces the target
FsRename(from, to) ==
    Faults(FaultCodes) \cup
    (IF files[from].ex
     THEN {Result("OK", [files EXCEPT ![to] = files[from], ![from] = NoFile], dir, <<>>, 0)}
     ELSE {Result("ENOENT", files, dir, <<>>, 0)})

FsUnlink(name) ==
    Faults(FaultCodes) \cup
    (IF files[name].ex
     THEN {Result("OK", [files EXCEPT ![name] = NoFile], dir, <<>>, 0)}
     ELSE {Result("ENOENT", files, dir, <<>>, 0)})

\* mkdirp(dirname(path)): succeeds when the directory is there already
FsMkdirp ==
    Faults(FaultCodes) \cup {Result("OK", files, TRUE, <<>>, 0)}

----------------------------------------------------------------------------
(* Calls.  "main" is the call under study; "after" is a read issued once  *)
(* a write or an append has returned, settled, hung or died in a crash.    *)
(* Ghost fields of a call: f0, d0 the file system it found; inj, log the   *)
(* results of its fs calls; f1, d1 the file system the run it is compared  *)
(* with left; conc whether it began while the other call was under way.    *)

Procs == {"main", "after"}

Idle ==
    [op |-> "none", async |-> FALSE, safe |-> FALSE, returnAs |-> "utf8",
     data |-> <<>>, pc |-> "idle", outcome |-> "pending", val |-> Null,
     err |-> "", bakFileSet |-> FALSE, file |-> "path", inj |-> 0,
     f0 |-> [n \in Names |-> NoFile], d0 |-> FALSE, log |-> <<>>,
     f1 |-> [n \in Names |-> NoFile], d1 |-> FALSE, conc |-> FALSE]

\* a call begins: its arguments, the file system it found, its first pending line
Begin(op, async, safe, returnAs, data, file, pc) ==
    [Idle EXCEPT !.op = op, !.async = async, !.safe = safe, !.returnAs = returnAs,
                 !.data = data, !.file = file, !.pc = pc, !.f0 = files, !.d0 = dir]

\* the file system call pending at c.pc ended with result r
Note(c, r) == [c EXCEPT !.inj = @ + r.inj, !.log = Append(@, <<c.pc, r.err>>)]

Goto(c, pc) == [c EXCEPT !.pc = pc]
\* return / deferred.resolve(val)
Return(c, val) == [c EXCEPT !.pc = "end", !.outcome = "ok", !.val = val]
\* throw err / deferred.reject(err)
Throw(c, err) == [c EXCEPT !.pc = "end", !.outcome = "fail", !.err = err]
\* an exception or a rejection nobody handles: nothing is pending any more
\* and the promise of the call is never settled
Hang(c) == [c EXCEPT !.pc = "end"]

At(p, pc) == call[p].pc = pc

Apply(p, r, c) ==
    /\ files' = r.fl
    /\ dir' = r.dir
    /\ faults' = faults + r.inj
    /\ call' = [call EXCEPT ![p] = c]

Over(p) == call[p].pc \in {"end", "crashed"}

CanStart(p) ==
    /\ call[p].pc = "idle"
    /\ p = "after" => Over("main") /\ call["main"].op \in {"write", "append"}

TypeOK ==
    /\ dir \in BOOLEAN
    /\ \A n \in Names : files[n].ex \in BOOLEAN
    /\ faults \in 0..MaxFaults
    /\ \A p \in Procs : call[p].outcome \in {"pending", "ok", "fail"}

Init ==
    /\ dir \in BOOLEAN
    /\ files \in [Names -> {NoFile} \cup {File(Utf8Encode(s)) : s \in Strings(MaxLen + 1)}]
    /\ dir = FALSE => \A n \in Names : files[n] = NoFile
    /\ files["path"].ex => Len(files["path"].b) <= MaxLen
    /\ files[bakExt].ex => files[bakExt].b = Utf8Encode(<<"1", "1">>)
    /\ files[newExt].ex => files[newExt].b = Utf8Encode(<<"x", "x">>)
    /\ call = [p \in Procs |-> Idle]
    /\ faults = 0

----------------------------------------------------------------------------
(* SYNC: write *)

\* write with the staging extension forgotten: the safe write stages into path
write_unstaged(p) ==
    /\ CanStart(p) /\ p = "main"
    /\ \E data \in Strings(MaxLen), safe \in BOOLEAN :
          call' = [call EXCEPT ![p] =
                     Begin("write", FALSE, safe, "utf8", data, "path", "114.open")]
    /\ UNCHANGED <<dir, files, faults>>

\* write(path, data, options), lines 151-160
write(p) ==
    /\ CanStart(p) /\ p = "main"
    /\ \E data \in Strings(MaxLen), safe \in BOOLEAN :
          call' = [call EXCEPT ![p] =
                     Begin("write", FALSE, safe, "utf8", data,
                           IF safe THEN newExt ELSE "path", "114.open")]
    /\ UNCHANGED <<dir, files, faults>>

\* what follows a writeFileSync that returned: line 133 for writeSafeSync,
\* the end of the call for write and for append
AfterWriteFileSync(c) ==
    IF c.op = "write" /\ c.safe THEN Goto(c, "136") ELSE Return(c, Null)

\* line 114, fs.writeFileSync opening the file
writeFileSync_open(p) ==
    /\ At(p, "114.open")
    /\ \E r \in FsOpenTrunc(call[p].file) :
          Apply(p, r,
                IF r.err = "OK" THEN Goto(Note(call[p], r), "114.write")
                ELSE IF r.err = "ENOENT" THEN Goto(Note(call[p], r), "118")
                ELSE Throw(Note(call[p], r), r.err))

\* line 114, fs.writeFileSync writing the data
writeFileSync_write(p) ==
    /\ At(p, "114.write")
    /\ \E r \in FsWrite(call[p].file, Utf8Encode(call[p].data)) :
          Apply(p, r,
                IF r.err = "OK" THEN AfterWriteFileSync(Note(call[p], r))
                ELSE IF r.err = "ENOENT" THEN Goto(Note(call[p], r), "118")
                ELSE Throw(Note(call[p], r), r.err))

\* line 118 with the second fs.writeFileSync (line 119) forgotten
writeFileSync_mkdirp_noretry(p) ==
    /\ At(p, "118")
    /\ \E r \in FsMkdirp :
          Apply(p, r,
                IF r.err = "OK" THEN AfterWriteFileSync(Note(call[p], r))
                ELSE Throw(Note(call[p], r), r.err))

\* line 118, mkdirp.sync
writeFileSync_mkdirp(p) ==
    /\ At(p, "118")
    /\ \E r \in FsMkdirp :
          Apply(p, r,
                IF r.err = "OK" THEN Goto(Note(call[p], r), "119.open")
                ELSE Throw(Note(call[p], r), r.err))

\* line 119, the second fs.writeFileSync opening the file
writeFileSync_retry_open(p) ==
    /\ At(p, "119.open")
    /\ \E r \in FsOpenTrunc(call[p].file) :
          Apply(p, r,
                IF r.err = "OK" THEN Goto(Note(call[p], r), "119.write")
                ELSE Throw(Note(call[p], r), r.err))

\* line 119, the second fs.writeFileSync writing the data
writeFileSync_retry_write(p) ==
    /\ At(p, "119.write")
    /\ \E r \in FsWrite(call[p].file, Utf8Encode(call[p].data)) :
          Apply(p, r,
                IF r.err = "OK" THEN AfterWriteFileSync(Note(call[p], r))
                ELSE Throw(Note(call[p], r), r.err))

\* lines 134-140 with "bakFileSet = true" moved out of the try block
writeSafeSync_rename_bak_flag_always(p) ==
    /\ At(p, "136")
    /\ \E r \in FsRename("path", bakExt) :
          Apply(p, r, Goto([Note(call[p], r) EXCEPT !.bakFileSet = TRUE], "143"))

\* lines 134-140: rename path to the backup name; every error is caught
writeSafeSync_rename_bak(p) ==
    /\ At(p, "136")
    /\ \E r \in FsRename("path", bakExt) :
          Apply(p, r,
                IF r.err = "OK"
                THEN Goto([Note(call[p], r) EXCEPT !.bakFileSet = TRUE], "143")
                ELSE Goto(Note(call[p], r), "143"))

\* lines 143-148: rename the staging file to path
writeSafeSync_rename_new(p) ==
    /\ At(p, "143")
    /\ \E r \in FsRename(newExt, "path") :
          Apply(p, r,
                IF r.err = "OK"
                THEN (IF call[p].bakFileSet THEN Goto(Note(call[p], r), "147")
                      ELSE Return(Note(call[p], r), Null))
                ELSE Throw(Note(call[p], r), r.err))

\* line 147 gone: the backup is kept
writeSafeSync_unlink_bak_skipped(p) ==
    /\ At(p, "147")
    /\ Apply(p, Result("OK", files, dir, <<>>, 0),
             Return(Note(call[p], Result("OK", files, dir, <<>>, 0)), Null))

\* line 147: delete the backup
writeSafeSync_unlink_bak(p) ==
    /\ At(p, "147")
    /\ \E r \in FsUnlink(bakExt) :
          Apply(p, r,
                IF r.err = "OK" THEN Return(Note(call[p], r), Null)
                ELSE Throw(Note(call[p], r), r.err))

----------------------------------------------------------------------------
(* SYNC: read *)

\* read(path, returnAs, options), lines 72-100: the first read is pending
read(p) ==
    /\ CanStart(p)
    /\ \E returnAs \in ReturnAsArgs, safe \in BOOLEAN :
          call' = [call EXCEPT ![p] =
                     Begin("read", FALSE, safe, returnAs, <<>>, "path",
                           IF safe THEN "54" ELSE "90")]
    /\ UNCHANGED <<dir, files, faults>>

\* lines 102-108: parse and return; a parse error is thrown
read_return(c, data) ==
    IF ParseData(c.returnAs, data).ok
    THEN Return(c, ParseData(c.returnAs, data).val)
    ELSE Throw(c, "SyntaxError")

\* line 54 without the fallback: a missing path gives null at once
readSafeSync_primary_nofallback(p) ==
    /\ At(p, "54")
    /\ \E r \in FsReadFile("path") :
          Apply(p, r,
                IF r.err = "OK"
                THEN read_return(Note(call[p], r),
                                 ReadValue(r.out, ReadEncoding(call[p].returnAs)))
                ELSE IF r.err = "ENOENT" THEN read_return(Note(call[p], r), Null)
                ELSE Throw(Note(call[p], r), r.err))

\* line 54: readSafeSync reads path
readSafeSync_primary(p) ==
    /\ At(p, "54")
    /\ \E r \in FsReadFile("path") :
          Apply(p, r,
                IF r.err = "OK"
                THEN read_return(Note(call[p], r),
                                 ReadValue(r.out, ReadEncoding(call[p].returnAs)))
                ELSE IF r.err = "ENOENT" THEN Goto(Note(call[p], r), "59")
                ELSE Throw(Note(call[p], r), r.err))

\* lines 57-63 rethrowing what is not ENOENT, as the outer catch does
readSafeSync_backup_strict(p) ==
    /\ At(p, "59")
    /\ \E r \in FsReadFile(bakExt) :
          Apply(p, r,
                IF r.err = "OK"
                THEN read_return(Note(call[p], r),
                                 ReadValue(r.out, ReadEncoding(call[p].returnAs)))
                ELSE IF r.err = "ENOENT" THEN read_return(Note(call[p], r), Null)
                ELSE Throw(Note(call[p], r), r.err))

\* lines 57-63: readSafeSync reads the backup; every error gives null
readSafeSync_backup(p) ==
    /\ At(p, "59")
    /\ \E r \in FsReadFile(bakExt) :
          Apply(p, r,
                IF r.err = "OK"
                THEN read_return(Note(call[p], r),
                                 ReadValue(r.out, ReadEncoding(call[p].returnAs)))
                ELSE read_return(Note(call[p], r), Null))

\* lines 89-99 without the ENOENT case: every error is rethrown
read_plain_rethrow(p) ==
    /\ At(p, "90")
    /\ \E r \in FsReadFile("path") :
          Apply(p, r,
                IF r.err = "OK"
                THEN read_return(Note(call[p], r),
                                 ReadValue(r.out, ReadEncoding(call[p].returnAs)))
                ELSE Throw(Note(call[p], r), r.err))

\* lines 89-99: the plain read
read_plain(p) ==
    /\ At(p, "90")
    /\ \E r \in FsReadFile("path") :
          Apply(p, r,
                IF r.err = "OK"
                THEN read_return(Note(call[p], r),
                                 ReadValue(r.out, ReadEncoding(call[p].returnAs)))
                ELSE IF r.err = "ENOENT" THEN read_return(Note(call[p], r), Null)
                ELSE Throw(Note(call[p], r), r.err))

----------------------------------------------------------------------------
(* SYNC: append *)

\* append(path, data, options), lines 162-173
append(p) ==
    /\ CanStart(p) /\ p = "main"
    /\ \E data \in Strings(MaxLen) :
          call' = [call EXCEPT ![p] =
                     Begin("append", FALSE, FALSE, "utf8", data, "path", "164.open")]
    /\ UNCHANGED <<dir, files, faults>>

\* line 164, fs.appendFileSync opening the file; ENOENT goes to writeFileSync (line 168)
append_open(p) ==
    /\ At(p, "164.open")
    /\ \E r \in FsOpenAppend("path") :
          Apply(p, r,
                IF r.err = "OK" THEN Goto(Note(call[p], r), "164.write")
                ELSE IF r.err = "ENOENT" THEN Goto(Note(call[p], r), "114.open")
                ELSE Throw(Note(call[p], r), r.err))

\* line 164 calling fs.writeFileSync's write (from offset 0) instead of appending
append_write_overwrite(p) ==
    /\ At(p, "164.write")
    /\ \E r \in FsWrite("path", Utf8Encode(call[p].data)) :
          Apply(p, r,
                IF r.err = "OK" THEN Return(Note(call[p], r), Null)
                ELSE IF r.err = "ENOENT" THEN Goto(Note(call[p], r), "114.open")
                ELSE Throw(Note(call[p], r), r.err))

\* line 164, fs.appendFileSync writing the data
append_write(p) ==
    /\ At(p, "164.write")
    /\ \E r \in FsAppend("path", Utf8Encode(call[p].data)) :
          Apply(p, r,
                IF r.err = "OK" THEN Return(Note(call[p], r), Null)
                ELSE IF r.err = "ENOENT" THEN Goto(Note(call[p], r), "114.open")
                ELSE Throw(Note(call[p], r), r.err))

----------------------------------------------------------------------------
(* ASYNC: read *)

\* readAsync(path, returnAs, options), lines 207-235
readAsync(p) ==
    /\ CanStart(p)
    /\ \E returnAs \in ReturnAsArgs, safe \in BOOLEAN :
          call' = [call EXCEPT ![p] =
                     Begin("read", TRUE, safe, returnAs, <<>>, "path",
                           IF safe THEN "190" ELSE "225")]
    /\ UNCHANGED <<dir, files, faults>>

\* lines 237-245: parse and resolve; an exception thrown here is thrown inside
\* a then-callback whose promise nobody holds, and deferred is left pending
dataReady(c, data) ==
    IF ParseData(c.returnAs, data).ok
    THEN Return(c, ParseData(c.returnAs, data).val)
    ELSE Hang(c)

\* lines 190-202: readSafeAsync reads path
readSafeAsync_primary(p) ==
    /\ At(p, "190")
    /\ \E r \in FsReadFile("path") :
          Apply(p, r,
                IF r.err = "OK"
                THEN dataReady(Note(call[p], r),
                               ReadValue(r.out, ReadEncoding(call[p].returnAs)))
                ELSE IF r.err = "ENOENT" THEN Goto(Note(call[p], r), "194")
                ELSE Throw(Note(call[p], r), r.err))

\* lines 194-198 reading path + newExt instead of path + bakExt
readSafeAsync_backup_wrong_ext(p) ==
    /\ At(p, "194")
    /\ \E r \in FsReadFile(newExt) :
          Apply(p, r,
                IF r.err = "OK"
                THEN dataReady(Note(call[p], r),
                               ReadValue(r.out, ReadEncoding(call[p].returnAs)))
                ELSE dataReady(Note(call[p], r), Null))

\* lines 194-198: readSafeAsync reads the backup; every error resolves null
readSafeAsync_backup(p) ==
    /\ At(p, "194")
    /\ \E r \in FsReadFile(bakExt) :
          Apply(p, r,
                IF r.err = "OK"
                THEN dataReady(Note(call[p], r),
                               ReadValue(r.out, ReadEncoding(call[p].returnAs)))
                ELSE dataReady(Note(call[p], r), Null))

\* lines 225-234: the plain read; ENOENT resolves null without dataReady
readAsync_plain(p) ==
    /\ At(p, "225")
    /\ \E r \in FsReadFile("path") :
          Apply(p, r,
                IF r.err = "OK"
                THEN dataReady(Note(call[p], r),
                               ReadValue(r.out, ReadEncoding(call[p].returnAs)))
                ELSE IF r.err = "ENOENT" THEN Return(Note(call[p], r), Null)
                ELSE Throw(Note(call[p], r), r.err))

----------------------------------------------------------------------------
(* ASYNC: write *)

\* writeAsync(path, data, options), lines 314-329
writeAsync(p) ==
    /\ CanStart(p) /\ p = "main"
    /\ \E data \in Strings(MaxLen), safe \in BOOLEAN :
          call' = [call EXCEPT ![p] =
                     Begin("write", TRUE, safe, "utf8", data,
                           IF safe THEN newExt ELSE "path", "254.open")]
    /\ UNCHANGED <<dir, files, faults>>

\* the promise of writeFileAsync resolved: writeSafeAsync goes on to line 286,
\* writeAsync resolves
writeFileAsync_resolved(c) ==
    IF c.safe THEN Goto(c, "286") ELSE Return(c, Null)

\* the promise of writeFileAsync rejected: writeAsync rejects (line 325);
\* writeSafeAsync gave then() no rejection handler (lines 283-294), so its
\* deferred is never settled
writeFileAsync_rejected(c, err) ==
    IF c.safe THEN Hang(c) ELSE Throw(c, err)

\* line 254 with the err.code test of line 259 left out: mkdirp after any error
writeFileAsync_open_any_error(p) ==
    /\ At(p, "254.open")
    /\ \E r \in FsOpenTrunc(call[p].file) :
          Apply(p, r,
                IF r.err = "OK" THEN Goto(Note(call[p], r), "254.write")
                ELSE Goto(Note(call[p], r), "261"))

\* line 254, qWriteFile opening the file
writeFileAsync_open(p) ==
    /\ At(p, "254.open")
    /\ \E r \in FsOpenTrunc(call[p].file) :
          Apply(p, r,
                IF r.err = "OK" THEN Goto(Note(call[p], r), "254.write")
                ELSE IF r.err = "ENOENT" THEN Goto(Note(call[p], r), "261")
                ELSE writeFileAsync_rejected(Note(call[p], r), r.err))

\* line 254, qWriteFile writing the data
writeFileAsync_write(p) ==
    /\ At(p, "254.write")
    /\ \E r \in FsWrite(call[p].file, Utf8Encode(call[p].data)) :
          Apply(p, r,
                IF r.err = "OK" THEN writeFileAsync_resolved(Note(call[p], r))
                ELSE IF r.err = "ENOENT" THEN Goto(Note(call[p], r), "261")
                ELSE writeFileAsync_rejected(Note(call[p], r), r.err))

\* line 261, qMkdirp
writeFileAsync_mkdirp(p) ==
    /\ At(p, "261")
    /\ \E r \in FsMkdirp :
          Apply(p, r,
                IF r.err = "OK" THEN Goto(Note(call[p], r), "263.open")
                ELSE writeFileAsync_rejected(Note(call[p], r), r.err))

\* line 263, the second qWriteFile opening the file
writeFileAsync_retry_open(p) ==
    /\ At(p, "263.open")
    /\ \E r \in FsOpenTrunc(call[p].file) :
          Apply(p, r,
                IF r.err = "OK" THEN Goto(Note(call[p], r), "263.write")
                ELSE writeFileAsync_rejected(Note(call[p], r), r.err))

\* line 263, the second qWriteFile writing the data
writeFileAsync_retry_write(p) ==
    /\ At(p, "263.write")
    /\ \E r \in FsWrite(call[p].file, Utf8Encode(call[p].data)) :
          Apply(p, r,
                IF r.err = "OK" THEN writeFileAsync_resolved(Note(call[p], r))
                ELSE writeFileAsync_rejected(Note(call[p], r), r.err))

\* lines 286-293 with "bakFileSet = true" forgotten
writeSafeAsync_rename_bak_noflag(p) ==
    /\ At(p, "286")
    /\ \E r \in FsRename("path", bakExt) :
          Apply(p, r, Goto(Note(call[p], r), "298"))

\* lines 286-293: rename path to the backup name; both handlers call step2
writeSafeAsync_rename_bak(p) ==
    /\ At(p, "286")
    /\ \E r \in FsRename("path", bakExt) :
          Apply(p, r,
                IF r.err = "OK"
                THEN Goto([Note(call[p], r) EXCEPT !.bakFileSet = TRUE], "298")
                ELSE Goto(Note(call[p], r), "298"))

\* step2 with the backup deleted in the rejection handler too
writeSafeAsync_step2_unlinks_anyway(p) ==
    /\ At(p, "298")
    /\ \E r \in FsRename(newExt, "path") :
          Apply(p, r,
                IF call[p].bakFileSet THEN Goto(Note(call[p], r), "302")
                ELSE IF r.err = "OK" THEN Return(Note(call[p], r), Null)
                ELSE Throw(Note(call[p], r), r.err))

\* lines 296-309, step2: rename the staging file to path
writeSafeAsync_step2(p) ==
    /\ At(p, "298")
    /\ \E r \in FsRename(newExt, "path") :
          Apply(p, r,
                IF r.err = "OK"
                THEN (IF call[p].bakFileSet THEN Goto(Note(call[p], r), "302")
                      ELSE Return(Note(call[p], r), Null))
                ELSE Throw(Note(call[p], r), r.err))

\* lines 302-303 deleting path instead of path + bakExt
writeSafeAsync_unlink_bak_path(p) ==
    /\ At(p, "302")
    /\ \E r \in FsUnlink("path") :
          Apply(p, r,
                IF r.err = "OK" THEN Return(Note(call[p], r), Null)
                ELSE Throw(Note(call[p], r), r.err))

\* lines 302-303: delete the backup
writeSafeAsync_unlink_bak(p) ==
    /\ At(p, "302")
    /\ \E r \in FsUnlink(bakExt) :
          Apply(p, r,
                IF r.err = "OK" THEN Return(Note(call[p], r), Null)
                ELSE Throw(Note(call[p], r), r.err))

----------------------------------------------------------------------------
(* ASYNC: append *)

\* appendAsync(path, data, options), lines 331-356
appendAsync(p) ==
    /\ CanStart(p) /\ p = "main"
    /\ \E data \in Strings(MaxLen) :
          call' = [call EXCEPT ![p] =
                     Begin("append", TRUE, FALSE, "utf8", data, "path", "334.open")]
    /\ UNCHANGED <<dir, files, faults>>

\* line 334, qAppendFile opening the file
appendAsync_open(p) ==
    /\ At(p, "334.open")
    /\ \E r \in FsOpenAppend("path") :
          Apply(p, r,
                IF r.err = "OK" THEN Goto(Note(call[p], r), "334.write")
                ELSE IF r.err = "ENOENT" THEN Goto(Note(call[p], r), "339")
                ELSE Throw(Note(call[p], r), r.err))

\* line 334, qAppendFile writing the data
appendAsync_write(p) ==
    /\ At(p, "334.write")
    /\ \E r \in FsAppend("path", Utf8Encode(call[p].data)) :
          Apply(p, r,
                IF r.err = "OK" THEN Return(Note(call[p], r), Null)
                ELSE IF r.err = "ENOENT" THEN Goto(Note(call[p], r), "339")
                ELSE Throw(Note(call[p], r), r.err))

\* lines 339-348: mkdirp, then appendAsync again from its first line
appendAsync_mkdirp(p) ==
    /\ At(p, "339")
    /\ \E r \in FsMkdirp :
          Apply(p, r,
                IF r.err = "OK" THEN Goto(Note(call[p], r), "334.open")
                ELSE Throw(Note(call[p], r), r.err))

----------------------------------------------------------------------------
\* the process dies while main is under way: whatever was pending never happens
Crash ==
    /\ call["main"].pc \notin {"idle", "end", "crashed"}
    /\ call' = [p \in Procs |->
                  IF call[p].pc \in {"idle", "end", "crashed"} THEN call[p]
                  ELSE [call[p] EXCEPT !.pc = "crashed"]]
    /\ UNCHANGED <<dir, files, faults>>

Next ==
    \/ \E p \in Procs :
         \/ read(p)
         \/ readSafeSync_primary(p)
         \/ readSafeSync_backup(p)
         \/ read_plain(p)
         \/ write(p)
         \/ writeFileSync_open(p)
         \/ writeFileSync_write(p)
         \/ writeFileSync_mkdirp(p)
         \/ writeFileSync_retry_open(p)
         \/ writeFileSync_retry_write(p)
         \/ writeSafeSync_rename_bak(p)
         \/ writeSafeSync_rename_new(p)
         \/ writeSafeSync_unlink_bak(p)
         \/ append(p)
         \/ append_open(p)
         \/ append_write(p)
         \/ readAsync(p)
         \/ readSafeAsync_primary(p)
         \/ readSafeAsync_backup(p)
         \/ readAsync_plain(p)
         \/ writeAsync(p)
         \/ writeFileAsync_open(p)
         \/ writeFileAsync_write(p)
         \/ writeFileAsync_mkdirp(p)
         \/ writeFileAsync_retry_open(p)
         \/ writeFileAsync_retry_write(p)
         \/ writeSafeAsync_rename_bak(p)
         \/ writeSafeAsync_step2(p)
         \/ writeSafeAsync_unlink_bak(p)
         \/ appendAsync(p)
         \/ appendAsync_open(p)
         \/ appendAsync_write(p)
         \/ appendAsync_mkdirp(p)
    \/ Crash

Spec == Init /\ [][Next]_vars

----------------------------------------------------------------------------
(* The same safe write a second time, once the first has succeeded *)

write_again(p) ==
    /\ p = "after" /\ call[p].pc = "idle"
    /\ call["main"].op = "write" /\ call["main"].safe
    /\ call["main"].pc = "end" /\ call["main"].outcome = "ok"
    /\ call' = [call EXCEPT ![p] =
                  Begin("write", call["main"].async, TRUE, "utf8", call["main"].data,
                        newExt, IF call["main"].async THEN "254.open" ELSE "114.open")]
    /\ UNCHANGED <<dir, files, faults>>

NextTwice ==
    \E p \in Procs :
         \/ write(p)
         \/ writeFileSync_open(p)
         \/ writeFileSync_write(p)
         \/ writeFileSync_mkdirp(p)
         \/ writeFileSync_retry_open(p)
         \/ writeFileSync_retry_write(p)
         \/ writeSafeSync_rename_bak(p)
         \/ writeSafeSync_rename_new(p)
         \/ writeSafeSync_unlink_bak(p)
         \/ writeAsync(p)
         \/ writeFileAsync_open(p)
         \/ writeFileAsync_write(p)
         \/ writeFileAsync_mkdirp(p)
         \/ writeFileAsync_retry_open(p)
         \/ writeFileAsync_retry_write(p)
         \/ writeSafeAsync_rename_bak(p)
         \/ writeSafeAsync_step2(p)
         \/ writeSafeAsync_unlink_bak(p)
         \/ write_again(p)

SpecTwice == Init /\ [][NextTwice]_vars

----------------------------------------------------------------------------
(* appendAsync while another process removes the directory.  The removal  *)
(* draws on the budget of faults; it waits while a call holds a file open, *)
(* whose write would go to the unlinked file.                              *)

WritePcs == {"114.write", "119.write", "164.write", "254.write", "263.write", "334.write"}

RemoveDir ==
    /\ faults < MaxFaults
    /\ dir
    /\ call["main"].pc \notin {"idle", "end", "crashed"}
    /\ \A p \in Procs : call[p].pc \notin WritePcs
    /\ dir' = FALSE
    /\ files' = [n \in Names |-> NoFile]
    /\ faults' = faults + 1
    /\ UNCHANGED call

NextRace ==
    \/ \E p \in Procs :
         \/ appendAsync(p)
         \/ appendAsync_open(p)
         \/ appendAsync_write(p)
         \/ appendAsync_mkdirp(p)
    \/ RemoveDir

SpecRace == Init /\ [][NextRace]_vars

----------------------------------------------------------------------------
(* A blocking call and then its asynchronous counterpart with the same     *)
(* arguments, from the file system the blocking call found and with the    *)
(* budget of faults restored.                                               *)

AsyncEntry(c) ==
    IF c.op = "read" THEN (IF c.safe THEN "190" ELSE "225")
    ELSE IF c.op = "write" THEN "254.open"
    ELSE "334.open"

twin(p) ==
    /\ p = "after" /\ call[p].pc = "idle"
    /\ call["main"].pc = "end" /\ ~call["main"].async
    /\ call' = [call EXCEPT ![p] =
                  [call["main"] EXCEPT
                      !.async = TRUE, !.pc = AsyncEntry(call["main"]),
                      !.file = IF call["main"].op = "write" /\ call["main"].safe
                               THEN newExt ELSE "path",
                      !.outcome = "pending", !.val = Null, !.err = "",
                      !.bakFileSet = FALSE, !.inj = 0, !.log = <<>>,
                      !.f1 = files, !.d1 = dir]]
    /\ files' = call["main"].f0
    /\ dir' = call["main"].d0
    /\ faults' = 0

NextTwin ==
    \/ \E p \in {"main"} :
         \/ read(p)
         \/ write(p)
         \/ append(p)
    \/ \E p \in Procs :
         \/ readSafeSync_primary(p)
         \/ readSafeSync_backup(p)
         \/ read_plain(p)
         \/ writeFileSync_open(p)
         \/ writeFileSync_write(p)
         \/ writeFileSync_mkdirp(p)
         \/ writeFileSync_retry_open(p)
         \/ writeFileSync_retry_write(p)
         \/ writeSafeSync_rename_bak(p)
         \/ writeSafeSync_rename_new(p)
         \/ writeSafeSync_unlink_bak(p)
         \/ append_open(p)
         \/ append_write(p)
         \/ twin(p)
         \/ readSafeAsync_primary(p)
         \/ readSafeAsync_backup(p)
         \/ readAsync_plain(p)
         \/ writeFileAsync_open(p)
         \/ writeFileAsync_write(p)
         \/ writeFileAsync_mkdirp(p)
         \/ writeFileAsync_retry_open(p)
         \/ writeFileAsync_retry_write(p)
         \/ writeSafeAsync_rename_bak(p)
         \/ writeSafeAsync_step2(p)
         \/ writeSafeAsync_unlink_bak(p)
         \/ appendAsync_open(p)
         \/ appendAsync_write(p)
         \/ appendAsync_mkdirp(p)

SpecTwin == Init /\ [][NextTwin]_vars

----------------------------------------------------------------------------
(* Two asynchronous calls on the same path: a safe writeAsync, and a second *)
(* safe writeAsync or a safe readAsync that begins while the first is under *)
(* way or after it; their fs calls interleave one by one.                   *)

SafeWriteAsyncBegun(c) == c.op = "write" /\ c.async /\ c.safe /\ c.pc # "idle"

writeAsync_second(p) ==
    /\ p = "after" /\ call[p].pc = "idle"
    /\ SafeWriteAsyncBegun(call["main"])
    /\ \E data \in Strings(MaxLen) :
          call' = [call EXCEPT ![p] =
                     [Begin("write", TRUE, TRUE, "utf8", data, newExt, "254.open")
                        EXCEPT !.conc = ~Over("main")]]
    /\ UNCHANGED <<dir, files, faults>>

readAsync_second(p) ==
    /\ p = "after" /\ call[p].pc = "idle"
    /\ SafeWriteAsyncBegun(call["main"])
    /\ call' = [call EXCEPT ![p] =
                  [Begin("read", TRUE, TRUE, "utf8", <<>>, "path", "190")
                     EXCEPT !.conc = ~Over("main")]]
    /\ UNCHANGED <<dir, files, faults>>

\* no call is between the open and the write of its staging file: a rename of
\* the staging file waits, since that write would follow the file to path
NoOpenStaging == \A q \in Procs : call[q].pc \notin WritePcs

step2(p) == NoOpenStaging /\ writeSafeAsync_step2(p)

NextConc ==
    \E p \in Procs :
         \/ writeAsync(p)
         \/ writeAsync_second(p)
         \/ readAsync_second(p)
         \/ writeFileAsync_open(p)
         \/ writeFileAsync_write(p)
         \/ writeFileAsync_mkdirp(p)
         \/ writeFileAsync_retry_open(p)
         \/ writeFileAsync_retry_write(p)
         \/ writeSafeAsync_rename_bak(p)
         \/ step2(p)
         \/ writeSafeAsync_unlink_bak(p)
         \/ readSafeAsync_primary(p)
         \/ readSafeAsync_backup(p)

SpecConc == Init /\ [][NextConc]_vars

----------------------------------------------------------------------------
(* Properties *)

Main == call["main"]
After == call["after"]

\* the call c logged result err at one of the lines in pcs
Logged(c, pcs, err) == \E i \in 1..Len(c.log) : c.log[i][1] \in pcs /\ c.log[i][2] = err
\* the call c reached one of the lines in pcs
Reached(c, pcs) == \E i \in 1..Len(c.log) : c.log[i][1] \in pcs

OldBytes == Main.f0["path"].b
NewBytes == Utf8Encode(Main.data)

SafeWriteOverOld == Main.op = "write" /\ Main.safe /\ Main.f0["path"].ex
\* step 1, the staging write, has completed
Staged == Logged(Main, {"114.write", "119.write", "254.write", "263.write"}, "OK")

\* a read returning the raw content (no JSON parsing)
RawRead(c) == c.op = "read" /\ EffectiveReturnAs(c.returnAs) \in {"utf8", "buf"}
\* the value such a read returns for a file holding bytes
RawValue(c, bytes) ==
    IF EffectiveReturnAs(c.returnAs) = "buf" THEN BufVal(bytes)
    ELSE StrVal([i \in 1..Len(bytes) |-> IF bytes[i] = 49 THEN "1" ELSE "x"])

\* C1: during and after a single safe write over content old, once the staging
\* write has completed and wherever the write then stops (a failing step, a
\* crash), old is intact under path or under the backup name or new is intact
\* under path, and path, when it exists, holds exactly old or exactly new.
C1_OldOrNewIntact ==
    SafeWriteOverOld /\ Staged =>
        /\ \/ files["path"] = File(OldBytes)
           \/ files[bakExt] = File(OldBytes)
           \/ files["path"] = File(NewBytes)
        /\ files["path"].ex => files["path"].b \in {OldBytes, NewBytes}

\* C1 witness: the write died between step 2 and step 3: path is gone, old is
\* under the backup name, new is only under the staging name
C1_Witness ==
    /\ SafeWriteOverOld /\ Staged
    /\ Main.pc = "crashed"
    /\ OldBytes # NewBytes
    /\ ~files["path"].ex
    /\ files[bakExt] = File(OldBytes)
    /\ files[newExt] = File(NewBytes)

\* C2: a safe write over an existing file in which every file system step
\* succeeds ends successfully with path holding exactly the data and with
\* neither the staging file nor the backup file left.
C2_SafeWriteRoundTrip ==
    SafeWriteOverOld /\ Main.inj = 0 /\ Main.pc = "end" =>
        /\ Main.outcome = "ok"
        /\ files["path"] = File(NewBytes)
        /\ ~files[newExt].ex
        /\ ~files[bakExt].ex

\* C2 witness: an asynchronous safe write of new data over old data finished,
\* having found leftovers under both derived names
C2_Witness ==
    /\ SafeWriteOverOld /\ Main.inj = 0 /\ Main.pc = "end" /\ Main.async
    /\ Main.f0[newExt].ex /\ Main.f0[bakExt].ex
    /\ OldBytes # NewBytes /\ Len(NewBytes) > 0
    /\ files["path"] = File(NewBytes)

\* C3: after a safe write over content old died in a crash, at whatever point,
\* a safe read whose own file system calls succeed returns the whole old
\* content or the whole new content: never null, never part of either.
C3_SafeReadAfterCrash ==
    /\ SafeWriteOverOld /\ Main.pc = "crashed"
    /\ RawRead(After) /\ After.safe /\ After.pc = "end" /\ After.inj = 0
    => /\ After.outcome = "ok"
       /\ After.val \in {RawValue(After, OldBytes), RawValue(After, NewBytes)}

\* C3 witness: the write died with path renamed away, and the safe read got
\* the old content from the backup
C3_Witness ==
    /\ SafeWriteOverOld /\ Main.pc = "crashed"
    /\ ~files["path"].ex
    /\ OldBytes # NewBytes
    /\ RawRead(After) /\ After.safe /\ After.pc = "end" /\ After.inj = 0
    /\ Reached(After, {"59", "194"})
    /\ After.val = RawValue(After, OldBytes)

\* C4: an asynchronous call that has nothing pending any more has settled its
\* promise (reads that return raw content, writes, appends), and a safe
\* writeAsync whose staging write failed has rejected.
C4_AsyncCallSettles ==
    \A p \in Procs :
        /\ call[p].async /\ call[p].pc = "end"
        /\ call[p].op \in {"write", "append"} \/ RawRead(call[p])
        => /\ call[p].outcome \in {"ok", "fail"}
           /\ (call[p].op = "write" /\ call[p].safe
               /\ Logged(call[p], {"254.open", "254.write", "261", "263.open", "263.write"}, "EIO"))
              => call[p].outcome = "fail"

\* C5: in a safe write, when the rename of path to the backup name fails with
\* an error other than not-found, the call fails with that error and the
\* rename of the staging file (step 3) is not attempted.
C5_RenameErrorPropagates ==
    \A p \in Procs :
        call[p].op = "write" /\ call[p].safe /\ Logged(call[p], {"136", "286"}, "EIO")
        => /\ call[p].pc = "end"
           /\ call[p].outcome = "fail"
           /\ call[p].err = "EIO"
           /\ ~Reached(call[p], {"143", "298"})

\* none of path, path + newExt, path + bakExt existed when main began
FreshPath == \A n \in Names : ~Main.f0[n].ex

\* the bytes of the string main was given
DataBytes == [i \in 1..Len(Main.data) |-> IF Main.data[i] = "1" THEN 49 ELSE 120]

\* C6: a write to a path under which nothing exists, safe or not, whose file
\* system steps all succeed ends ok in one and the same state: the parent
\* directory exists, path holds the data, no staging file, no backup file;
\* and during and after the safe write the backup file never exists.
C6_SafeWriteOnFreshPath ==
    Main.op = "write" /\ FreshPath =>
        /\ Main.safe => ~files[bakExt].ex
        /\ Main.inj = 0 /\ Main.pc = "end" =>
              /\ Main.outcome = "ok"
              /\ dir
              /\ files = [n \in Names |-> IF n = "path" THEN File(DataBytes) ELSE NoFile]

\* C6 witness: a safe write that had to create the parent directory, found
\* nothing to back up, and finished
C6_Witness ==
    /\ Main.op = "write" /\ Main.safe /\ FreshPath /\ ~Main.d0
    /\ Main.inj = 0 /\ Main.pc = "end"
    /\ Logged(Main, {"136", "286"}, "ENOENT")
    /\ Len(Main.data) > 0
    /\ files["path"] = File(DataBytes)

\* C7: after a non-safe write succeeded (also through the mkdirp-and-retry
\* path) the derived names are as they were before, and a read of path whose
\* fs call succeeds returns exactly the data written.
C7_WriteThenRead ==
    Main.op = "write" /\ ~Main.safe /\ Main.outcome = "ok" =>
        /\ files[newExt] = Main.f0[newExt]
        /\ files[bakExt] = Main.f0[bakExt]
        /\ RawRead(After) /\ After.pc = "end" /\ After.inj = 0 =>
              /\ After.outcome = "ok"
              /\ After.val = IF EffectiveReturnAs(After.returnAs) = "buf"
                             THEN BufVal(DataBytes) ELSE StrVal(Main.data)

\* C7 witness: the write created the parent directory and retried, then a
\* plain read returned the string written
C7_Witness ==
    /\ Main.op = "write" /\ ~Main.safe /\ Main.outcome = "ok" /\ ~Main.d0
    /\ Reached(Main, {"119.write", "263.write"})
    /\ Len(Main.data) > 0
    /\ After.op = "read" /\ ~After.safe /\ After.pc = "end"
    /\ After.val = StrVal(Main.data)

\* what a read with the arguments of c returns for a file holding bytes, when
\* the content parses
Expected(c, bytes) == ParseData(c.returnAs, RawValue(c, bytes))

\* C8: a safe read whose fs calls succeed returns the content of path when
\* path exists, the content of the backup when path is absent and the backup
\* exists, and null when both are absent.
C8_SafeReadFallback ==
    \A p \in Procs :
        call[p].op = "read" /\ call[p].safe /\ call[p].pc = "end" /\ call[p].inj = 0 =>
            IF call[p].f0["path"].ex
            THEN Expected(call[p], call[p].f0["path"].b).ok =>
                    /\ call[p].outcome = "ok"
                    /\ call[p].val = Expected(call[p], call[p].f0["path"].b).val
            ELSE IF call[p].f0[bakExt].ex
            THEN Expected(call[p], call[p].f0[bakExt].b).ok =>
                    /\ call[p].outcome = "ok"
                    /\ call[p].val = Expected(call[p], call[p].f0[bakExt].b).val
            ELSE call[p].outcome = "ok" /\ call[p].val = Null

\* C8 witness: path absent, backup and staging file present, and the
\* asynchronous safe read resolved with the backup's text
C8_Witness ==
    /\ Main.op = "read" /\ Main.safe /\ Main.async /\ Main.pc = "end" /\ Main.inj = 0
    /\ ~Main.f0["path"].ex /\ Main.f0[bakExt].ex /\ Main.f0[newExt].ex
    /\ Main.outcome = "ok"
    /\ Main.val = StrVal(<<"1", "1">>)

\* C9: a non-safe read never reads the backup; of a missing path it returns
\* null whatever returnAs is; a failure of its fs call other than not-found
\* fails the call with that error.
C9_PlainReadMissing ==
    \A p \in Procs :
        call[p].op = "read" /\ ~call[p].safe =>
            /\ \A i \in 1..Len(call[p].log) : call[p].log[i][1] \in {"90", "225"}
            /\ call[p].pc = "end" /\ ~call[p].f0["path"].ex /\ call[p].inj = 0 =>
                  call[p].outcome = "ok" /\ call[p].val = Null
            /\ call[p].pc = "end" /\ call[p].inj > 0 =>
                  call[p].outcome = "fail" /\ call[p].err = "EIO"

\* C9 witness: a blocking non-safe read as json of a missing path that has a
\* backup returned null
C9_Witness ==
    /\ Main.op = "read" /\ ~Main.safe /\ ~Main.async /\ Main.returnAs = "json"
    /\ ~Main.f0["path"].ex /\ Main.f0[bakExt].ex
    /\ Main.pc = "end" /\ Main.outcome = "ok" /\ Main.val = Null

\* C10: after an append succeeded the parent directory exists and the file
\* holds its previous content followed by the data; when the parent directory
\* did not exist the file holds exactly the data.
C10_Append ==
    Main.op = "append" /\ Main.outcome = "ok" =>
        /\ dir
        /\ files["path"] = File(OldBytes \o DataBytes)
        /\ ~Main.d0 => files["path"] = File(DataBytes)

\* C10 witness: data appended to a file that had content
C10_Witness ==
    /\ Main.op = "append" /\ Main.outcome = "ok"
    /\ Len(OldBytes) > 0 /\ Len(DataBytes) > 0
    /\ files["path"].b = OldBytes \o DataBytes

\* the other case of C10: the parent directory was missing, appendAsync
\* created it and appended again
C10_WitnessNoDir ==
    /\ Main.op = "append" /\ Main.async /\ Main.outcome = "ok" /\ ~Main.d0
    /\ Reached(Main, {"339"})
    /\ Len(DataBytes) > 0
    /\ files["path"] = File(DataBytes)

----------------------------------------------------------------------------
(* Properties, continued *)

\* the file a read with the arguments of c gets its content from, given the
\* file system it found
ContentRead(c) ==
    IF c.f0["path"].ex THEN c.f0["path"]
    ELSE IF c.safe THEN c.f0[bakExt] ELSE NoFile

JsonRead(c) == c.op = "read" /\ EffectiveReturnAs(c.returnAs) \in {"json", "jsonWithDates"}

\* C12: a read as json or jsonWithDates of content that is not JSON fails
\* with the parse error, blocking (throws) and asynchronous (rejects), safe
\* and non-safe.
C12_DecodeErrorPropagates ==
    \A p \in Procs :
        /\ JsonRead(call[p]) /\ call[p].pc = "end" /\ call[p].inj = 0
        /\ ContentRead(call[p]).ex
        /\ ~Expected(call[p], ContentRead(call[p]).b).ok
        => call[p].outcome = "fail" /\ call[p].err = "SyntaxError"

\* the blocking half of C12, which the code satisfies
C12_SyncDecodeErrorPropagates ==
    \A p \in Procs :
        /\ JsonRead(call[p]) /\ call[p].pc = "end" /\ call[p].inj = 0
        /\ ~call[p].async
        /\ ContentRead(call[p]).ex
        /\ ~Expected(call[p], ContentRead(call[p]).b).ok
        => call[p].outcome = "fail" /\ call[p].err = "SyntaxError"

\* the call c logged a failure at one of the lines in pcs
Failed(c, pcs) == \E i \in 1..Len(c.log) : c.log[i][1] \in pcs /\ c.log[i][2] # "OK"
\* the last file system call of c was at one of the lines in pcs
LastAt(c, pcs) == Len(c.log) > 0 /\ c.log[Len(c.log)][1] \in pcs

\* C14: in a safe write a failing step 3 or step 4 fails the call and is its
\* last step; what the earlier steps did stays: after a failed step 3 the
\* staging file holds the data, a backup made in step 2 holds the old content
\* and path is as step 2 left it; after a failed step 4 path holds the data
\* and the backup is still there.
C14_LateFailureHalts ==
    Main.op = "write" /\ Main.safe =>
        /\ Failed(Main, {"143", "298"}) =>
              /\ Main.pc = "end" /\ Main.outcome = "fail" /\ Main.err = "EIO"
              /\ LastAt(Main, {"143", "298"})
              /\ files[newExt] = File(DataBytes)
              /\ Main.bakFileSet => files[bakExt] = File(OldBytes) /\ ~files["path"].ex
              /\ ~Main.bakFileSet => files["path"] = Main.f0["path"]
                                     /\ files[bakExt] = Main.f0[bakExt]
        /\ Failed(Main, {"147", "302"}) =>
              /\ Main.pc = "end" /\ Main.outcome = "fail" /\ Main.err = "EIO"
              /\ LastAt(Main, {"147", "302"})
              /\ files["path"] = File(DataBytes)
              /\ files[bakExt] = File(OldBytes)
              /\ ~files[newExt].ex

\* C14 witness: step 3 failed after step 2 had made the backup
C14_Witness ==
    /\ Main.op = "write" /\ Main.safe /\ Main.async
    /\ Failed(Main, {"298"}) /\ Main.bakFileSet
    /\ Main.outcome = "fail"
    /\ OldBytes # DataBytes
    /\ ~files["path"].ex
    /\ files[bakExt] = File(OldBytes)
    /\ files[newExt] = File(DataBytes)

\* the other case of C14: step 4 failed
C14_WitnessStep4 ==
    /\ Main.op = "write" /\ Main.safe
    /\ Failed(Main, {"147", "302"})
    /\ Main.outcome = "fail"
    /\ OldBytes # DataBytes
    /\ files["path"] = File(DataBytes)
    /\ files[bakExt] = File(OldBytes)

\* C15: in a safe read a failure of the first read other than not-found fails
\* the call with that error and the backup is not read; the backup is read
\* only after the first read failed with not-found; whatever failure the read
\* of the backup ends with, the call returns null.
C15_SafeReadErrors ==
    \A p \in Procs :
        call[p].op = "read" /\ call[p].safe =>
            /\ Logged(call[p], {"54", "190"}, "EIO") =>
                  /\ call[p].pc = "end" /\ call[p].outcome = "fail" /\ call[p].err = "EIO"
                  /\ ~Reached(call[p], {"59", "194"})
            /\ Reached(call[p], {"59", "194"}) =>
                  /\ Len(call[p].log) = 2
                  /\ call[p].log[1][1] \in {"54", "190"} /\ call[p].log[1][2] = "ENOENT"
            /\ Failed(call[p], {"59", "194"}) =>
                  call[p].pc = "end" /\ call[p].outcome = "ok" /\ call[p].val = Null

\* C15 witness: path missing, the backup is there, reading it failed with
\* EIO, and the blocking safe read returned null
C15_Witness ==
    /\ Main.op = "read" /\ Main.safe /\ ~Main.async
    /\ ~Main.f0["path"].ex /\ Main.f0[bakExt].ex
    /\ Logged(Main, {"59"}, "EIO")
    /\ Main.outcome = "ok" /\ Main.val = Null

FirstWrite == {"114.open", "114.write", "254.open", "254.write"}
Mkdirp == {"118", "261"}
RetryWrite == {"119.open", "119.write", "263.open", "263.write"}
\* the positions of the log of c at lines in pcs
LogAt(c, pcs) == {i \in 1..Len(c.log) : c.log[i][1] \in pcs}

\* C16: writeFileSync / writeFileAsync call mkdirp only right after the first
\* write failed with not-found, and only once; the second write comes only
\* right after a successful mkdirp, and only once; a first failure of another
\* kind, a failing mkdirp and a failing second write end the primitive with
\* that error (the call throws / rejects with it; writeSafeAsync, which drops
\* the rejection, just stops).
C16_WriteFileRetriesOnce ==
    \A p \in Procs :
        /\ \A i \in LogAt(call[p], Mkdirp) :
              /\ i > 1
              /\ call[p].log[i - 1][1] \in FirstWrite
              /\ call[p].log[i - 1][2] = "ENOENT"
        /\ \A i \in LogAt(call[p], {"119.open", "263.open"}) :
              /\ i > 1
              /\ call[p].log[i - 1][1] \in Mkdirp
              /\ call[p].log[i - 1][2] = "OK"
        /\ Logged(call[p], Mkdirp, "OK") =>
              \/ call[p].pc \in {"119.open", "263.open", "crashed"}
              \/ Reached(call[p], {"119.open", "263.open"})
        /\ Cardinality(LogAt(call[p], Mkdirp)) <= 1
        /\ Cardinality(LogAt(call[p], {"114.open", "254.open"})) <= 1
        /\ Cardinality(LogAt(call[p], {"119.open", "263.open"})) <= 1
        /\ \/ Logged(call[p], FirstWrite, "EIO")
           \/ Failed(call[p], Mkdirp)
           \/ Failed(call[p], RetryWrite)
           => /\ call[p].pc = "end"
              /\ LastAt(call[p], FirstWrite \cup Mkdirp \cup RetryWrite)
              /\ call[p].log[Len(call[p].log)][2] # "OK"
              /\ ~(call[p].async /\ call[p].safe) =>
                    /\ call[p].outcome = "fail"
                    /\ call[p].err = call[p].log[Len(call[p].log)][2]

\* C16 witness: the first write found no directory, mkdirp made it, and the
\* second write failed: writeAsync rejected after two attempts
C16_Witness ==
    /\ Main.op = "write" /\ ~Main.safe /\ Main.async /\ ~Main.d0
    /\ Logged(Main, {"254.open"}, "ENOENT")
    /\ Logged(Main, {"261"}, "OK")
    /\ Failed(Main, {"263.open", "263.write"})
    /\ Main.outcome = "fail"

\* C20: a safe write that succeeded has left neither the staging file nor
\* the backup file, whatever the file system it started from.
C20_NoArtifactsAfterSuccess ==
    Main.op = "write" /\ Main.safe /\ Main.inj = 0 /\ Main.outcome = "ok" =>
        ~files[newExt].ex /\ ~files[bakExt].ex

\* what does hold for C20: the staging file is gone, and the backup is gone
\* unless the write found a backup and no file at path
C20_ArtifactsAfterSuccess ==
    Main.op = "write" /\ Main.safe /\ Main.inj = 0 /\ Main.outcome = "ok" =>
        /\ ~files[newExt].ex
        /\ files[bakExt].ex <=> (Main.f0[bakExt].ex /\ ~Main.f0["path"].ex)
        /\ files[bakExt].ex => files[bakExt] = Main.f0[bakExt]

\* every file system call of c so far succeeded
AllOK(c) == \A i \in 1..Len(c.log) : c.log[i][2] = "OK"
\* c is a safe write that has succeeded with every one of its steps succeeding
CleanSafeWrite(c) ==
    c.op = "write" /\ c.safe /\ c.pc = "end" /\ c.outcome = "ok" /\ AllOK(c)
NoArtifacts(fl) == ~fl[newExt].ex /\ ~fl[bakExt].ex

\* C11: when the same safe write is done twice in a row and every file
\* system step of both runs succeeds, path holds the data after the first
\* run and the same after the second, and after each run neither the staging
\* file nor the backup file exists.
C11_SafeWriteTwice ==
    /\ CleanSafeWrite(Main) /\ After.pc = "idle" =>
          files["path"] = File(DataBytes) /\ NoArtifacts(files)
    /\ CleanSafeWrite(Main) /\ CleanSafeWrite(After) =>
          /\ After.f0["path"] = File(DataBytes) /\ NoArtifacts(After.f0)
          /\ files["path"] = After.f0["path"] /\ NoArtifacts(files)

\* C11 witness: both runs done, the first over other content
C11_Witness ==
    /\ CleanSafeWrite(Main) /\ CleanSafeWrite(After)
    /\ After.data = Main.data
    /\ Main.f0["path"].ex /\ OldBytes # DataBytes
    /\ files["path"] = File(DataBytes)

\* C11 with the not-found of step 2 on a missing path counted as a step that
\* succeeded: fails from a leftover backup (claim C20)
C11_SafeWriteTwiceNoFaults ==
    /\ Main.op = "write" /\ Main.safe /\ Main.outcome = "ok" /\ Main.inj = 0
       /\ After.pc = "idle" =>
          files["path"] = File(DataBytes) /\ NoArtifacts(files)
    /\ Main.op = "write" /\ Main.safe /\ Main.outcome = "ok" /\ Main.inj = 0
       /\ After.op = "write" /\ After.outcome = "ok" /\ After.inj = 0 =>
          files["path"] = After.f0["path"] /\ NoArtifacts(files)

\* C17: appendAsync makes at most two append attempts: after a not-found and
\* a successful mkdirp it tries once more, and a failure of that second
\* attempt, not-found included, rejects the call; a failing mkdirp rejects
\* without another attempt.
C17_AppendAsyncRetriesOnce ==
    Main.op = "append" /\ Main.async =>
        /\ Cardinality(LogAt(Main, {"334.open"})) <= 2
        /\ Cardinality(LogAt(Main, {"339"})) <= 1
        /\ Failed(Main, {"339"}) =>
              Main.pc = "end" /\ Main.outcome = "fail" /\ LastAt(Main, {"339"})
        /\ \A i \in LogAt(Main, {"334.open", "334.write"}) :
              (\E j \in 1..(i - 1) : Main.log[j][1] = "339") /\ Main.log[i][2] # "OK" =>
                  Main.pc = "end" /\ Main.outcome = "fail" /\ i = Len(Main.log)

\* what holds for C17 when the directory is removed in between: each append
\* attempt but the first follows a not-found and a successful mkdirp, every
\* other failure rejects at once, and the number of attempts is only bounded
\* by the number of times not-found recurs
C17_AppendAsyncRetries ==
    Main.op = "append" /\ Main.async =>
        /\ \A i \in LogAt(Main, {"339"}) :
              i > 1 /\ Main.log[i - 1][1] \in {"334.open", "334.write"}
                    /\ Main.log[i - 1][2] = "ENOENT"
        /\ \A i \in LogAt(Main, {"334.open"}) :
              i > 1 => Main.log[i - 1] = <<"339", "OK">>
        /\ \A i \in 1..Len(Main.log) :
              Main.log[i][2] \notin {"OK", "ENOENT"} =>
                  Main.pc = "end" /\ Main.outcome = "fail" /\ i = Len(Main.log)
        /\ Cardinality(LogAt(Main, {"334.open"})) <= 1 + Cardinality(LogAt(Main, {"339"}))

\* the results of the file system calls of c, in order
ErrSeq(c) == [i \in 1..Len(c.log) |-> c.log[i][2]]
\* After is the asynchronous counterpart of the blocking call Main, both are
\* over, and their file system calls had the same results one by one
Twins ==
    /\ ~Main.async /\ After.async /\ After.op = Main.op
    /\ Main.pc = "end" /\ After.pc = "end"
    /\ ErrSeq(After) = ErrSeq(Main)

\* C13: a blocking operation and its asynchronous counterpart, run from the
\* same file system with the same arguments and the same result of every
\* file system call, end with the same result (value, success or failure
\* with the same error) and leave the same file system.
C13_SyncAsyncAgree ==
    Twins =>
        /\ After.outcome = Main.outcome
        /\ After.val = Main.val
        /\ After.err = Main.err
        /\ files = After.f1 /\ dir = After.d1

\* what holds for C13: the two agree whenever the asynchronous call settles
C13_SyncAsyncAgreeIfSettled ==
    Twins /\ After.outcome # "pending" =>
        /\ After.outcome = Main.outcome
        /\ After.val = Main.val
        /\ After.err = Main.err
        /\ files = After.f1 /\ dir = After.d1

\* and when it does not settle the blocking call threw and the file systems agree
C13_SyncAsyncAgreeOnFiles ==
    Twins /\ After.outcome = "pending" =>
        /\ Main.outcome = "fail"
        /\ files = After.f1 /\ dir = After.d1

\* Main and After are both safe asynchronous writes
TwoWriters == SafeWriteAsyncBegun(Main) /\ SafeWriteAsyncBegun(After)
\* the call has not renamed anything yet
BeforeRenames(c) == c.pc \in {"idle", "254.open", "254.write", "261", "263.open", "263.write", "286"}
\* a call reported success although path does not hold its data, the other
\* call having renamed nothing yet
SuccessWithoutData ==
    \E p \in Procs : \E q \in Procs \ {p} :
        /\ SafeWriteAsyncBegun(call[p]) /\ call[p].outcome = "ok"
        /\ BeforeRenames(call[q])
        /\ files["path"] # File(Utf8Encode(call[p].data))
\* a call failed although no fault was injected
FailureWithoutFault ==
    \E p \in Procs : SafeWriteAsyncBegun(call[p]) /\ call[p].outcome = "fail"
\* both calls are over and path holds neither writer's data nor the old content
NeitherNorOld ==
    /\ TwoWriters /\ Over("main") /\ Over("after")
    /\ files["path"] # File(Utf8Encode(Main.data))
    /\ files["path"] # File(Utf8Encode(After.data))
    /\ ~(Main.f0["path"].ex /\ files["path"] = Main.f0["path"])
Corrupted ==
    faults = 0 /\ (SuccessWithoutData \/ FailureWithoutFault \/ NeitherNorOld)

\* C18: two safe writeAsync calls on the same path can leave the sequence
\* corrupted (a success though path does not hold the data, a failure though
\* no fault was injected, path holding neither writer's data nor the old
\* content), and that happens only when the second began while the first was
\* under way: one after the other they never do.
C18_CorruptedOnlyByRace ==
    Corrupted => TwoWriters /\ After.conc

\* C18 witness: the two writes overlapped, no fault was injected, the old
\* content is lost from path, which is gone, and the second call failed
C18_Witness ==
    /\ TwoWriters /\ After.conc /\ faults = 0
    /\ Over("main") /\ Over("after")
    /\ Main.f0["path"].ex
    /\ Main.outcome = "ok" /\ After.outcome = "fail"
    /\ ~files["path"].ex
    /\ NeitherNorOld

\* the other corruption of C18: a call has reported success while path holds
\* the other writer's data, that writer having renamed nothing yet
C18_WitnessSuccessWithoutData ==
    TwoWriters /\ After.conc /\ faults = 0 /\ SuccessWithoutData

\* C19: a safe readAsync running concurrently with one safe writeAsync over
\* a path that held content old, no fault injected, returns the complete old
\* or the complete new content, never null.
C19_ConcurrentSafeRead ==
    /\ SafeWriteAsyncBegun(Main) /\ Main.f0["path"].ex
    /\ After.op = "read" /\ After.pc = "end"
    /\ faults = 0
    => /\ After.outcome = "ok"
       /\ After.val \in {RawValue(After, OldBytes), RawValue(After, NewBytes)}

\* what holds for C19: the value is the old content, the new content or null
C19_ConcurrentSafeReadOrNull ==
    /\ SafeWriteAsyncBegun(Main) /\ Main.f0["path"].ex
    /\ After.op = "read" /\ After.pc = "end"
    /\ faults = 0
    => /\ After.outcome = "ok"
       /\ After.val \in {RawValue(After, OldBytes), RawValue(After, NewBytes), Null}

====
